---- MODULE Spec2Model ----
\* Execution phase of the zkVM: Executor::run_with_callback / step / advance /
\* split and the ecall handlers of risc0/zkvm/src/exec/mod.rs, over an abstract
\* MemoryMonitor (speculative writes, page-cycle accounting) and an abstract
\* instruction decoder.
EXTENDS Integers, Sequences, FiniteSets, TLC

\* ---------------------------------------------------------------- bounds
\* Cap on the instructions one executor retires (loops in the guest).
MaxSteps == 9
\* Cap on the segments handed to the segment callback.
MaxSegs == 5
\* Cap on the run() calls made on one executor.
MaxRuns == 3

\* ------------------------------------------------------------- constants
SHA_CYCLES == 72
BIGINT_CYCLES == 9
\* Loader::init_cycles(), Loader::fini_cycles() and risc0_zkp::ZK_CYCLES.
InitCycles == 8
FiniCycles == 8
ZK_CYCLES == 16
WORD_SIZE == 4
\* Cycles charged for the first read (or write) of a page in a segment.
PageCycles == 3
\* Words per data page and number of data words of the abstract image.
PageWords == 2
NData == 6
\* Page numbers: the code page, the page of the memory-mapped registers, and
\* the first data page.
CodePage == 0
RegPage == 1
DataPage0 == 2

\* risc0_zkvm_platform::syscall::ecall and ::halt
ECALL_HALT == 0
ECALL_INPUT == 1
ECALL_SOFTWARE == 2
ECALL_SHA == 3
ECALL_BIGINT == 4
HALT_TERMINATE == 0
HALT_PAUSE == 1

REG_T0 == "t0"
REG_A0 == "a0"
REG_A1 == "a1"
REG_A2 == "a2"
REG_A3 == "a3"
REG_A4 == "a4"
Reg == {REG_T0, REG_A0, REG_A1, REG_A2, REG_A3, REG_A4}
DAddr == 0 .. (NData - 1)
DataPage(a) == DataPage0 + (a \div PageWords)

\* The one syscall name the registry knows (as the word stored at name_ptr),
\* the address a handler touches through the monitor and the word it stores.
SysName == 1
HAddr == 3
HVal == 9
\* Width of a big integer in bits (bigint::WIDTH_BYTES * 8), and of a digest
\* word; one word holds a whole big integer or digest.
BigintBits == 4
\* Words of a SHA block half (BLOCK_BYTES / 2 in words).
BlockWords == 2

\* ------------------------------------------------------------ value types
\* Option<ExitCode>: k is the variant ("None" for no exit), v its payload.
NoExit == [k |-> "None", v |-> 0]
SystemSplit == [k |-> "SystemSplit", v |-> 0]
SessionLimit == [k |-> "SessionLimit", v |-> 0]
Paused(c) == [k |-> "Paused", v |-> c]
Halted(c) == [k |-> "Halted", v |-> c]
Fault(p) == [k |-> "Fault", v |-> p]
\* Not an ExitCode: the step did not return, a panic unwinds through it.
Unwound == [k |-> "Panic", v |-> 0]

\* Option<u32>, Option<SyscallRecord>
NoneU32 == [some |-> FALSE, v |-> 0]
SomeU32(n) == [some |-> TRUE, v |-> n]
NoSyscall == [some |-> FALSE, to_guest |-> <<>>, regs |-> <<0, 0>>]
SyscallRecord(tg, rs) == [some |-> TRUE, to_guest |-> tg, regs |-> rs]

\* ----------------------------------------------------------- MemoryMonitor
\* image: committed memory; cur: memory as the running step sees it (image plus
\* the speculative write set); faults: pages read / written in the segment;
\* pending_reads / pending_writes: the pages first touched since the last
\* commit; trace_events: events queued since the last commit.
MemoryMonitor_new(img) ==
  [image |-> img, cur |-> img,
   faults |-> [reads |-> {}, writes |-> {}],
   pending_reads |-> {}, pending_writes |-> {},
   page_read_cycles |-> 0, page_write_cycles |-> 0,
   trace_events |-> <<>>]

touch_read(m, p) ==
  IF p \in m.faults.reads THEN m
  ELSE [m EXCEPT !.faults.reads = @ \cup {p},
                 !.pending_reads = @ \cup {p},
                 !.page_read_cycles = @ + PageCycles]

touch_write(m, p) ==
  IF p \in m.faults.writes THEN m
  ELSE [m EXCEPT !.faults.writes = @ \cup {p},
                 !.pending_writes = @ \cup {p},
                 !.page_write_cycles = @ + PageCycles]

\* load_u32 / load_array / load_string at a data address: the page is charged;
\* the value read is m.cur.data[a].
load_u32(m, a) == touch_read(m, DataPage(a))

\* load_u32(pc): the instruction fetch.
load_insn(m) == touch_read(m, CodePage)

\* load_register / load_registers: registers are memory-mapped.
load_register(m) == touch_read(m, RegPage)

store_register(m, r, v) ==
  [touch_write(m, RegPage) EXCEPT
     !.cur.regs[r] = v,
     !.trace_events = Append(@, [ev |-> "RegisterSet", at |-> r, value |-> v])]

store_u32(m, a, v) ==
  [touch_write(m, DataPage(a)) EXCEPT
     !.cur.data[a] = v,
     !.trace_events = Append(@, [ev |-> "MemorySet", at |-> a, value |-> v])]

\* store_region(addr, words): one store per word, in order.
RECURSIVE store_region(_, _, _)
store_region(m, a, ws) ==
  IF ws = <<>> THEN m
  ELSE store_region(store_u32(m, a, Head(ws)), a + 1, Tail(ws))

commit(m) ==
  [m EXCEPT !.image = m.cur, !.pending_reads = {}, !.pending_writes = {},
            !.trace_events = <<>>]

undo(m) ==
  [m EXCEPT !.cur = m.image,
            !.faults = [reads |-> m.faults.reads \ m.pending_reads,
                        writes |-> m.faults.writes \ m.pending_writes],
            !.page_read_cycles = @ - PageCycles * Cardinality(m.pending_reads \cap m.faults.reads),
            !.page_write_cycles = @ - PageCycles * Cardinality(m.pending_writes \cap m.faults.writes),
            !.pending_reads = {}, !.pending_writes = {},
            !.trace_events = <<>>]

clear_segment(m) ==
  [m EXCEPT !.faults = [reads |-> {}, writes |-> {}],
            !.pending_reads = {}, !.pending_writes = {},
            !.page_read_cycles = 0, !.page_write_cycles = 0]

\* clear_session resets bookkeeping that lives for one run; none of the fields
\* above is of that kind.
clear_session(m) == m

build_image(m, pc) == [regs |-> m.image.regs, data |-> m.image.data, pc |-> pc]

\* MemoryImage::compute_id: a digest of the image, taken to be collision free.
compute_id(img) == <<"id", img.pc, img.regs, img.data>>

\* ------------------------------------------------------ instruction decode
\* An instruction word, as OpCode::decode and the instruction executor see it:
\*   li rd imm / mul rd imm  write one register      sw addr val  store a word
\*   j target                jump                    ecall        major ECall
\*   trap                    decodes, the instruction executor fails on it
\*   bad                     does not decode
Li(rd, imm) == [op |-> "li", rd |-> rd, imm |-> imm, addr |-> 0]
Mul(rd, imm) == [op |-> "mul", rd |-> rd, imm |-> imm, addr |-> 0]
Sw(a, v) == [op |-> "sw", rd |-> REG_T0, imm |-> v, addr |-> a]
Jmp(t) == [op |-> "j", rd |-> REG_T0, imm |-> 0, addr |-> t]
ECall == [op |-> "ecall", rd |-> REG_T0, imm |-> 0, addr |-> 0]
Trap == [op |-> "trap", rd |-> REG_T0, imm |-> 0, addr |-> 0]
Bad == [op |-> "bad", rd |-> REG_T0, imm |-> 0, addr |-> 0]

\* The word at pc; memory past the program holds no instruction.
insn_at(env, pc) ==
  IF pc % WORD_SIZE = 0 /\ (pc \div WORD_SIZE) + 1 \in 1 .. Len(env.prog)
  THEN env.prog[(pc \div WORD_SIZE) + 1] ELSE Bad

\* OpCode::decode: ok is FALSE for Err; cycles is the base cost of the opcode.
decode(insn) ==
  [ok |-> insn.op # "bad",
   ecall |-> insn.op = "ecall",
   cycles |-> IF insn.op = "mul" THEN 2 ELSE 1]

OpCodeResult(pc, exit_code, extra_cycles) ==
  [pc |-> pc, exit_code |-> exit_code, extra_cycles |-> extra_cycles]

\* -------------------------------------------------------------- accounting
const_cycles == InitCycles + FiniCycles + SHA_CYCLES + ZK_CYCLES

RECURSIVE Pow2(_)
Pow2(n) == IF n = 0 THEN 1 ELSE 2 * Pow2(n - 1)

\* log2_ceil(total_cycles.next_power_of_two())
RECURSIVE log2_ceil_from(_, _)
log2_ceil_from(n, k) == IF Pow2(k) >= n THEN k ELSE log2_ceil_from(n, k + 1)
segment_po2(total) == log2_ceil_from(total, 0)

get_segment_limit(env) == Pow2(env.segment_limit_po2)

total_cycles(ex) ==
  const_cycles + ex.monitor.page_read_cycles + ex.monitor.page_write_cycles
    + ex.body_cycles

session_cycle(ex, env) ==
  Len(ex.segments) * get_segment_limit(env) + ex.segment_cycle

\* crate::align_up(n, align): n rounded up to a multiple of align.
align_up(n, align) == ((n + align - 1) \div align) * align

\* ------------------------------------------------------------ Executor::new
Executor_new(image, pc) ==
  [pre_image |-> image,
   monitor |-> MemoryMonitor_new([regs |-> image.regs, data |-> image.data]),
   pc |-> pc,
   body_cycles |-> 0,
   segment_cycle |-> InitCycles,
   segments |-> <<>>,
   insn_counter |-> 0,
   split_insn |-> NoneU32,
   pending_syscall |-> NoSyscall,
   syscalls |-> <<>>,
   exit_code |-> NoExit]

\* A world: one executor with the host state it drives (the journal sink of the
\* current run, the number of handler invocations) and what its callbacks have
\* observed (segments handed to the segment callback, retired instructions,
\* trace events).
World_new(image, pc) ==
  [ex |-> Executor_new(image, pc),
   journal |-> <<>>, hcalls |-> 0,
   emitted |-> <<>>, commits |-> <<>>, trace |-> <<>>]

\* ------------------------------------------------------- syscall handlers
\* env.get_syscall(name): the registry knows one name.
get_syscall(env, name) == name = SysName

\* handler.syscall(name, &mut monitor, &mut to_guest) -> (a0, a1).  The handler
\* fills every word of to_guest with the number of this invocation and returns
\* (0, 1).  What else it does depends on the handler registered in env:
\*   "pure"     nothing
\*   "reader"   reads guest memory at HAddr through the monitor
\*   "writer"   stores HVal at HAddr through the monitor
\*   "journal"  reads guest memory at HAddr and appends a byte to the journal
handler_syscall(w, env, to_guest_words) ==
  LET n == w.hcalls + 1
      m == w.ex.monitor
      m1 == CASE env.handler = "pure" -> m
              [] env.handler = "reader" -> load_u32(m, HAddr)
              [] env.handler = "writer" -> store_u32(m, HAddr, HVal)
              [] env.handler = "journal" -> load_u32(m, HAddr)
      j1 == IF env.handler = "journal" THEN Append(w.journal, n) ELSE w.journal
  IN [w |-> [w EXCEPT !.ex.monitor = m1, !.hcalls = n, !.journal = j1],
      to_guest |-> [i \in 1 .. to_guest_words |-> n],
      regs |-> <<0, 1>>]

\* ------------------------------------------------------------------ ecalls
\* Each returns [ok, w, op]: ok is FALSE for Err (w then holds what the ecall
\* had done before it failed), op is the OpCodeResult.
NoOp == OpCodeResult(0, NoExit, 0)
Ok(w, op) == [ok |-> TRUE, w |-> w, op |-> op]
Err(w) == [ok |-> FALSE, w |-> w, op |-> NoOp]
\* The ecall panicked (an unwrap on None).
Crash(w) == [ok |-> FALSE, w |-> w, op |-> OpCodeResult(0, Unwound, 0)]
with_monitor(w, m) == [w EXCEPT !.ex.monitor = m]

\* A faulty ecall_halt: PAUSE leaves pc at the ecall, as TERMINATE does.
halt_match_pause_stays(w, tot_reg) ==
  CASE tot_reg % 256 = HALT_TERMINATE ->
         Ok(w, OpCodeResult(w.ex.pc, Halted((tot_reg \div 256) % 256), 0))
    [] tot_reg % 256 = HALT_PAUSE ->
         Ok(w, OpCodeResult(w.ex.pc, Paused((tot_reg \div 256) % 256), 0))
    [] OTHER -> Err(w)

\* The match of ecall_halt (lines 422-434), once A0, A1 and the output digest
\* have been loaded (w).
halt_match(w, tot_reg) ==
  CASE tot_reg % 256 = HALT_TERMINATE ->
         Ok(w, OpCodeResult(w.ex.pc, Halted((tot_reg \div 256) % 256), 0))
    [] tot_reg % 256 = HALT_PAUSE ->
         Ok(w, OpCodeResult(w.ex.pc + WORD_SIZE, Paused((tot_reg \div 256) % 256), 0))
    [] OTHER -> Err(w)

ecall_halt(w, env) ==
  halt_match(with_monitor(w, load_u32(load_register(w.ex.monitor),
                                      w.ex.monitor.cur.regs[REG_A1])),
             w.ex.monitor.cur.regs[REG_A0])

ecall_input(w, env) ==
  Ok(with_monitor(w, load_u32(load_register(w.ex.monitor),
                              w.ex.monitor.cur.regs[REG_A0])),
     OpCodeResult(w.ex.pc + WORD_SIZE, NoExit, 0))

\* Lines 578-593: store the record's words and registers; w.ex.pending_syscall
\* is the record in use (replayed, or just made by the handler).
software_store(w, to_guest_ptr, to_guest_words) ==
  Ok(with_monitor(w,
       store_register(
         store_register(
           store_region(w.ex.monitor, to_guest_ptr, w.ex.pending_syscall.to_guest),
           REG_A0, w.ex.pending_syscall.regs[1]),
         REG_A1, w.ex.pending_syscall.regs[2])),
     OpCodeResult(w.ex.pc + WORD_SIZE, NoExit,
                  1 + align_up(to_guest_words, WORD_SIZE) + 1))

\* Lines 570-574: the handler's output becomes the pending record.
set_pending(h) ==
  [h.w EXCEPT !.ex.pending_syscall = SyscallRecord(h.to_guest, h.regs)]

\* Lines 557-576, once the registers and the name have been loaded (w).
software_call(w, env, to_guest_ptr, to_guest_words, syscall_name) ==
  IF w.ex.pending_syscall.some
  THEN software_store(w, to_guest_ptr, to_guest_words)
  ELSE IF ~get_syscall(env, syscall_name)
  THEN Err(w)
  ELSE software_store(set_pending(handler_syscall(w, env, to_guest_words)),
                      to_guest_ptr, to_guest_words)

ecall_software(w, env) ==
  software_call(
    with_monitor(w, load_u32(load_register(w.ex.monitor),
                             w.ex.monitor.cur.regs[REG_A2])),
    env,
    w.ex.monitor.cur.regs[REG_A0],
    w.ex.monitor.cur.regs[REG_A1],
    w.ex.monitor.cur.data[w.ex.monitor.cur.regs[REG_A2]])

\* sha2::compress256 on one block (two halves), as a function of its inputs.
compress256(state, b1, b2) == (3 * state + b1 + 2 * b2 + 1) % Pow2(BigintBits)

\* Lines 459-478: load and compress count blocks; m is the monitor, state the
\* digest so far.
RECURSIVE sha_blocks(_, _, _, _, _)
sha_blocks(m, state, block1_ptr, block2_ptr, count) ==
  IF count = 0 THEN [m |-> m, state |-> state]
  ELSE sha_blocks(load_u32(load_u32(m, block1_ptr), block2_ptr),
                  compress256(state, m.cur.data[block1_ptr], m.cur.data[block2_ptr]),
                  block1_ptr + BlockWords, block2_ptr + BlockWords, count - 1)

\* Lines 485-492: r is what sha_blocks returned.
sha_store(w, out_state_ptr, r, count) ==
  Ok(with_monitor(w, store_region(r.m, out_state_ptr, <<r.state>>)),
     OpCodeResult(w.ex.pc + WORD_SIZE, NoExit, SHA_CYCLES * count))

ecall_sha(w, env) ==
  sha_store(w, w.ex.monitor.cur.regs[REG_A0],
            sha_blocks(load_u32(load_register(w.ex.monitor),
                                w.ex.monitor.cur.regs[REG_A1]),
                       w.ex.monitor.cur.data[w.ex.monitor.cur.regs[REG_A1]],
                       w.ex.monitor.cur.regs[REG_A2],
                       w.ex.monitor.cur.regs[REG_A3],
                       w.ex.monitor.cur.regs[REG_A4]),
            w.ex.monitor.cur.regs[REG_A4])

\* Lines 532-545: store z, nine extra cycles.
bigint_store(w, z_ptr, z) ==
  Ok(with_monitor(w, store_u32(w.ex.monitor, z_ptr, z)),
     OpCodeResult(w.ex.pc + WORD_SIZE, NoExit, BIGINT_CYCLES))

\* Lines 523-530: x.checked_mul(&y).unwrap() when n = 0, else x * y mod n.
bigint_mul(w, z_ptr, x, y, n) ==
  IF n = 0
  THEN IF x * y >= Pow2(BigintBits) THEN Crash(w) ELSE bigint_store(w, z_ptr, x * y)
  ELSE bigint_store(w, z_ptr, (x * y) % n)

\* Lines 518-520: load x, y and n.
bigint_load(w, z_ptr, x_ptr, y_ptr, n_ptr) ==
  bigint_mul(with_monitor(w, load_u32(load_u32(load_u32(w.ex.monitor, x_ptr),
                                               y_ptr), n_ptr)),
             z_ptr,
             w.ex.monitor.cur.data[x_ptr] % Pow2(BigintBits),
             w.ex.monitor.cur.data[y_ptr] % Pow2(BigintBits),
             w.ex.monitor.cur.data[n_ptr] % Pow2(BigintBits))

ecall_bigint(w, env) ==
  IF w.ex.monitor.cur.regs[REG_A1] # 0
  THEN Err(with_monitor(w, load_register(w.ex.monitor)))
  ELSE bigint_load(with_monitor(w, load_register(w.ex.monitor)),
                   w.ex.monitor.cur.regs[REG_A0],
                   w.ex.monitor.cur.regs[REG_A2],
                   w.ex.monitor.cur.regs[REG_A3],
                   w.ex.monitor.cur.regs[REG_A4])

\* A faulty dispatch: an unknown ecall is skipped as a no-op.
ecall_dispatch_skips_unknown(w, env, t0) ==
  CASE t0 = ECALL_HALT -> ecall_halt(w, env)
    [] t0 = ECALL_INPUT -> ecall_input(w, env)
    [] t0 = ECALL_SOFTWARE -> ecall_software(w, env)
    [] t0 = ECALL_SHA -> ecall_sha(w, env)
    [] t0 = ECALL_BIGINT -> ecall_bigint(w, env)
    [] OTHER -> Ok(w, OpCodeResult(w.ex.pc + WORD_SIZE, NoExit, 0))

\* The dispatch of ecall, once T0 has been loaded (w).
ecall_dispatch(w, env, t0) ==
  CASE t0 = ECALL_HALT -> ecall_halt(w, env)
    [] t0 = ECALL_INPUT -> ecall_input(w, env)
    [] t0 = ECALL_SOFTWARE -> ecall_software(w, env)
    [] t0 = ECALL_SHA -> ecall_sha(w, env)
    [] t0 = ECALL_BIGINT -> ecall_bigint(w, env)
    [] OTHER -> Err(w)

ecall(w, env) ==
  ecall_dispatch(with_monitor(w, load_register(w.ex.monitor)), env,
                 w.ex.monitor.cur.regs[REG_T0])

\* InstructionExecutor::step on a non-ecall instruction (w has the registers
\* loaded), with the register write-back of Executor::step.
exec_insn(w, insn) ==
  CASE insn.op = "trap" -> Err(w)
    [] insn.op = "sw" ->
         Ok(with_monitor(w, store_u32(w.ex.monitor, insn.addr, insn.imm)),
            OpCodeResult(w.ex.pc + WORD_SIZE, NoExit, 0))
    [] insn.op = "j" -> Ok(w, OpCodeResult(insn.addr, NoExit, 0))
    [] OTHER ->
         Ok(with_monitor(w, store_register(w.ex.monitor, insn.rd, insn.imm)),
            OpCodeResult(w.ex.pc + WORD_SIZE, NoExit, 0))

exec_step(w, env, insn) ==
  exec_insn(with_monitor(w, load_register(w.ex.monitor)), insn)

\* ----------------------------------------------------------- Executor::step
\* What the retired-instruction log keeps of one committed step: w0 is the
\* world before the step, w the world as the instruction left it, ex2 the
\* executor after the commit.
Retired(w0, w, env, insn, opcode, op, ex2) ==
  [pc |-> w0.ex.pc, next_pc |-> op.pc, insn |-> insn,
   t0 |-> w0.ex.monitor.cur.regs[REG_T0], a0 |-> w0.ex.monitor.cur.regs[REG_A0],
   cost |-> opcode.cycles + op.extra_cycles, extra |-> op.extra_cycles,
   exit |-> op.exit_code, cycle |-> session_cycle(ex2, env),
   total |-> total_cycles(ex2), seg |-> Len(w0.emitted),
   calls |-> w0.hcalls, calls_after |-> w.hcalls,
   replayed |-> w0.ex.pending_syscall.some,
   syscall |-> w.ex.pending_syscall,
   pending_after |-> ex2.pending_syscall.some]

\* A faulty advance: the pending record is pushed but not taken.
advance_ex_keeps_pending(ex, opcode, op) ==
  [ex EXCEPT
     !.pc = op.pc,
     !.insn_counter = @ + 1,
     !.body_cycles = @ + opcode.cycles + op.extra_cycles,
     !.segment_cycle = InitCycles + ex.monitor.page_read_cycles
                         + ex.body_cycles + opcode.cycles + op.extra_cycles,
     !.monitor = commit(ex.monitor),
     !.syscalls = IF ex.pending_syscall.some
                  THEN Append(@, ex.pending_syscall) ELSE @]

\* Lines 379-388: the executor after the commit.
advance_ex(ex, opcode, op) ==
  [ex EXCEPT
     !.pc = op.pc,
     !.insn_counter = @ + 1,
     !.body_cycles = @ + opcode.cycles + op.extra_cycles,
     !.segment_cycle = InitCycles + ex.monitor.page_read_cycles
                         + ex.body_cycles + opcode.cycles + op.extra_cycles,
     !.monitor = commit(ex.monitor),
     !.pending_syscall = NoSyscall,
     !.syscalls = IF ex.pending_syscall.some
                  THEN Append(@, ex.pending_syscall) ELSE @]

\* A faulty trace hand-over: the queued events go first, InstructionStart last.
advance_events_start_last(ex, env) ==
  ex.monitor.trace_events
    \o <<[ev |-> "InstructionStart", at |-> ex.pc, value |-> session_cycle(ex, env)]>>

\* Lines 367-377: the events handed to the trace callback.
advance_events(ex, env) ==
  <<[ev |-> "InstructionStart", at |-> ex.pc, value |-> session_cycle(ex, env)]>>
    \o ex.monitor.trace_events

\* advance: w is the world as the instruction left it (the monitor holding its
\* speculative effects), w0 the world before the step began.
advance(w0, w, env, insn, opcode, op) ==
  [w |-> [w EXCEPT
            !.ex = advance_ex(w.ex, opcode, op),
            !.trace = @ \o advance_events(w.ex, env),
            !.commits = Append(@, Retired(w0, w, env, insn, opcode, op,
                                          advance_ex(w.ex, opcode, op)))],
   exit |-> op.exit_code]

\* A faulty segmentation test: the ecall's extra cycles are left out.
over_limit_without_extra(ex, env, opcode, op) ==
  total_cycles(ex) + opcode.cycles > get_segment_limit(env)

\* The segmentation test of step (lines 339-347).
over_limit(ex, env, opcode, op) ==
  total_cycles(ex) + opcode.cycles + op.extra_cycles > get_segment_limit(env)

\* A faulty step: over the limit it sets split_insn but leaves the speculative
\* effects in place.
step_decide_without_undo(w0, env, insn, opcode, r) ==
  IF ~r.ok
  THEN [w |-> r.w,
        exit |-> IF r.op.exit_code = Unwound THEN Unwound ELSE Fault(w0.ex.pc)]
  ELSE IF over_limit(r.w.ex, env, opcode, r.op)
  THEN [w |-> [r.w EXCEPT !.ex.split_insn = SomeU32(w0.ex.insn_counter)],
        exit |-> SystemSplit]
  ELSE advance(w0, r.w, env, insn, opcode, r.op)

\* Lines 347-355: r is what the instruction did.
step_decide(w0, env, insn, opcode, r) ==
  IF ~r.ok
  THEN [w |-> r.w,
        exit |-> IF r.op.exit_code = Unwound THEN Unwound ELSE Fault(w0.ex.pc)]
  ELSE IF over_limit(r.w.ex, env, opcode, r.op)
  THEN [w |-> [r.w EXCEPT !.ex.split_insn = SomeU32(w0.ex.insn_counter),
                          !.ex.monitor = undo(r.w.ex.monitor)],
        exit |-> SystemSplit]
  ELSE advance(w0, r.w, env, insn, opcode, r.op)

\* Lines 298-330: wf is the world after the instruction fetch.
step_fetched(w0, wf, env, insn) ==
  IF ~decode(insn).ok THEN [w |-> wf, exit |-> Fault(w0.ex.pc)]
  ELSE step_decide(w0, env, insn, decode(insn),
                   IF decode(insn).ecall THEN ecall(wf, env)
                   ELSE exec_step(wf, env, insn))

\* Lines 292-296.
session_limit_hit(ex, env) ==
  env.session_limit.some /\ session_cycle(ex, env) >= env.session_limit.v

\* A faulty step: the instruction is fetched before the session limit is
\* consulted.
step_fetches_first(w, env) ==
  IF session_limit_hit(w.ex, env)
  THEN [w |-> with_monitor(w, load_insn(w.ex.monitor)), exit |-> SessionLimit]
  ELSE step_fetched(w, with_monitor(w, load_insn(w.ex.monitor)), env,
                    insn_at(env, w.ex.pc))

\* Executor::step (lines 291-356).
step(w, env) ==
  IF session_limit_hit(w.ex, env)
  THEN [w |-> w, exit |-> SessionLimit]
  ELSE step_fetched(w, with_monitor(w, load_insn(w.ex.monitor)), env,
                    insn_at(env, w.ex.pc))

\* A faulty split: split_insn of the segment just closed stays set.
split_keeps_split_insn(ex, pre_image) ==
  [ex EXCEPT !.pre_image = pre_image,
             !.body_cycles = 0,
             !.insn_counter = 0,
             !.segment_cycle = InitCycles,
             !.monitor = clear_segment(ex.monitor)]

\* ---------------------------------------------------------- Executor::split
\* A faulty split: the new segment keeps the pre_image of the closed one.
split_keeps_pre_image(ex, pre_image) ==
  [ex EXCEPT !.body_cycles = 0,
             !.split_insn = NoneU32,
             !.insn_counter = 0,
             !.segment_cycle = InitCycles,
             !.monitor = clear_segment(ex.monitor)]

\* split (lines 279-286).
split(ex, pre_image) ==
  [ex EXCEPT !.pre_image = pre_image,
             !.body_cycles = 0,
             !.split_insn = NoneU32,
             !.insn_counter = 0,
             !.segment_cycle = InitCycles,
             !.monitor = clear_segment(ex.monitor)]

\* ------------------------------------------------- run_with_callback, parts
\* Segment::new(...) as built in the run loop (lines 224-242).
Segment_new(ex, exit_code) ==
  [pre_image |-> ex.pre_image,
   post_image_id |-> compute_id(build_image(ex.monitor, ex.pc)),
   faults |-> ex.monitor.faults,
   syscalls |-> ex.syscalls,
   exit_code |-> exit_code,
   split_insn |-> ex.split_insn,
   po2 |-> segment_po2(total_cycles(ex)),
   index |-> Len(ex.segments),
   body_cycles |-> ex.body_cycles]

\* The assertion of line 223.
segment_fits(ex, env) == total_cycles(ex) <= Pow2(env.segment_limit_po2)

\* Lines 224-244: build the segment, take syscalls and faults, hand the segment
\* to the callback and push the reference it returns.
emit_segment(w, exit_code) ==
  [w EXCEPT !.ex.syscalls = <<>>,
            !.ex.monitor.faults = [reads |-> {}, writes |-> {}],
            !.ex.segments = Append(@, Segment_new(w.ex, exit_code)),
            !.emitted = Append(@, Segment_new(w.ex, exit_code))]

\* Does the match of lines 245-261 call split for this exit code?
splits_after(exit_code) == exit_code.k \in {"SystemSplit", "Paused"}

\* Lines 245-261, for the world w after the segment was handed over.
split_world(w, exit_code) ==
  IF splits_after(exit_code)
  THEN [w EXCEPT !.ex = split(w.ex, build_image(w.ex.monitor, w.ex.pc))]
  ELSE w

\* Lines 221-261 for one exit code of step.
close_segment(w, exit_code) == split_world(emit_segment(w, exit_code), exit_code)

\* A faulty guard: run refuses a faulted executor, not a halted one.
run_refused_on_fault(ex) == ex.exit_code.k = "Fault"

\* Lines 206-208: is a new run refused?
run_refused(ex) == ex.exit_code.k = "Halted"

\* A faulty entry: the journal of the run before stays installed.
run_begin_keeps_journal(w) ==
  [w EXCEPT !.ex.monitor = clear_session(w.ex.monitor)]

\* Lines 210-216: clear the monitor's session state, install a fresh journal.
run_begin(w) ==
  [w EXCEPT !.ex.monitor = clear_session(w.ex.monitor), !.journal = <<>>]

\* Session::new(take(&mut self.segments), journal.buf.take(), exit_code)
Session_new(w, exit_code) ==
  [segments |-> w.ex.segments, journal |-> w.journal, exit_code |-> exit_code]

\* Lines 271-276: record the exit code and give the segments away.
run_return(w, exit_code) ==
  [w EXCEPT !.ex.exit_code = exit_code, !.ex.segments = <<>>]

\* ------------------------------------------------------------ environments
\* Segment limits (env.segment_limit_po2), session limits (env.session_limit)
\* and handlers the runs are checked for.
Po2s == {7, 8}
SessionLimits == {NoneU32, SomeU32(20), SomeU32(140)}
Handlers == {"pure", "reader", "writer", "journal"}
\* Longest run of register moves put in front of a program.
MaxPad == 2
\* The segment limit of the reference run, which never splits.
RefPo2 == 12

Regs(t0, a0, a1, a2) ==
  [t0 |-> t0, a0 |-> a0, a1 |-> a1, a2 |-> a2, a3 |-> 0, a4 |-> 0]
Regs6(t0, a0, a1, a2, a3, a4) ==
  [t0 |-> t0, a0 |-> a0, a1 |-> a1, a2 |-> a2, a3 |-> a3, a4 |-> a4]
Data0 == [a \in DAddr |-> IF a = 0 THEN SysName ELSE 0]

\* Guest programs with the registers they start from.
Guests ==
  { \* store, then halt with exit code 3
    [prog |-> <<Sw(2, 5), ECall>>, regs |-> Regs(0, 768, 1, 0)],
    \* pause with exit code 3, store, halt with exit code 5
    [prog |-> <<ECall, Sw(2, 5), Li(REG_A0, 1280), ECall>>, regs |-> Regs(0, 769, 1, 0)],
    \* store, software ecall returning one word at address 2, halt
    [prog |-> <<Sw(1, 7), ECall, Li(REG_T0, 0), ECall>>, regs |-> Regs(2, 2, 1, 0)],
    \* two software ecalls, halt
    [prog |-> <<ECall, Li(REG_A0, 2), ECall, Li(REG_T0, 0), ECall>>,
     regs |-> Regs(2, 2, 2, 0)],
    \* software ecall, pause, store, halt
    [prog |-> <<ECall, Li(REG_T0, 0), Li(REG_A0, 257), ECall, Sw(1, 4), Li(REG_A0, 0), ECall>>,
     regs |-> Regs(2, 2, 1, 0)],
    \* software ecall, pause, software ecall, halt
    [prog |-> <<ECall, Li(REG_T0, 0), Li(REG_A0, 257), ECall, Li(REG_T0, 2),
                Li(REG_A0, 2), ECall, Li(REG_T0, 0), ECall>>,
     regs |-> Regs(2, 2, 1, 0)],
    \* software ecall returning five words at address 1, halt
    [prog |-> <<ECall, Li(REG_T0, 0), ECall>>, regs |-> Regs(2, 1, 5, 0)],
    \* input ecall, halt with exit code 2
    [prog |-> <<ECall, Li(REG_T0, 0), Li(REG_A0, 512), ECall>>, regs |-> Regs(1, 3, 0, 0)],
    \* a loop that never halts
    [prog |-> <<Mul(REG_A1, 6), Sw(2, 1), Jmp(0)>>, regs |-> Regs(0, 0, 0, 0)],
    \* an instruction that does not decode
    [prog |-> <<Li(REG_A0, 4), Bad>>, regs |-> Regs(0, 0, 0, 0)],
    \* an instruction the instruction executor fails on
    [prog |-> <<Sw(2, 1), Trap>>, regs |-> Regs(0, 0, 0, 0)],
    \* ecall with an unknown T0
    [prog |-> <<Sw(2, 1), ECall>>, regs |-> Regs(7, 0, 0, 0)],
    \* software ecall naming an unknown syscall
    [prog |-> <<ECall>>, regs |-> Regs(2, 2, 1, 1)],
    \* halt ecall with an illegal halt type
    [prog |-> <<ECall>>, regs |-> Regs(0, 2, 1, 0)],
    \* bigint ecall, n = 0: z = 3 * 3 at address 5, then off the program's end
    [prog |-> <<Sw(4, 3), ECall>>, regs |-> Regs6(4, 5, 0, 4, 4, 5)],
    \* bigint ecall, n = 0: 4 * 4 does not fit
    [prog |-> <<Sw(4, 4), ECall>>, regs |-> Regs6(4, 5, 0, 4, 4, 5)],
    \* bigint ecall, n = 7: z = 4 * 4 mod 7
    [prog |-> <<Sw(4, 4), Sw(5, 7), ECall>>, regs |-> Regs6(4, 5, 0, 4, 4, 5)],
    \* bigint ecall with op = 1
    [prog |-> <<Sw(4, 3), ECall>>, regs |-> Regs6(4, 5, 1, 4, 4, 5)],
    \* stores and register writes, then a halt ecall with an illegal halt type
    \* whose digest pointer is on a page not read before
    [prog |-> <<Sw(2, 1), Sw(4, 1), Li(REG_A2, 0), Mul(REG_A2, 0), Mul(REG_A2, 0), ECall>>,
     regs |-> Regs(0, 2, 0, 0)],
    \* sha ecall over one block, halt
    [prog |-> <<ECall, Li(REG_T0, 0), Li(REG_A0, 0), ECall>>,
     regs |-> Regs6(3, 2, 0, 4, 5, 1)] }

\* k register moves that change nothing, in front of a program without jumps.
Pad(k, g) == [i \in 1 .. k |-> Li(REG_A2, g.regs[REG_A2])] \o g.prog
HasJump(g) == \E i \in 1 .. Len(g.prog) : g.prog[i].op = "j"

Envs ==
  { [prog |-> IF HasJump(g) THEN g.prog ELSE Pad(k, g),
     image |-> [regs |-> g.regs, data |-> Data0, pc |-> 0],
     segment_limit_po2 |-> p, session_limit |-> sl, handler |-> h] :
      g \in Guests, k \in 0 .. MaxPad, p \in Po2s, sl \in SessionLimits, h \in Handlers }

RefEnv(e) == [e EXCEPT !.segment_limit_po2 = RefPo2, !.session_limit = NoneU32]

\* ------------------------------------------------------------------- state
VARIABLES
  env,      \* ExecutorEnv, the guest program and the initial image
  exec,     \* the Executor
  journal,  \* the journal sink installed by the current run
  hcalls,   \* invocations of the syscall handler so far
  emitted,  \* the segments handed to the segment callback, over all runs
  commits,  \* the retired instructions, over all runs
  trace,    \* the events handed to the trace callback
  mode,     \* "idle" (no run in progress), "running", "panicked"
  runs,     \* run() calls made
  result,   \* how the last run() ended: "none", "ok", an error, "panic"
  session,  \* the Session the last successful run returned
  returned, \* the Sessions run() has returned, in order
  ref       \* the reference run: the same guest under RefEnv

vars == <<env, exec, journal, hcalls, emitted, commits, trace, mode, runs,
          result, session, returned, ref>>

World ==
  [ex |-> exec, journal |-> journal, hcalls |-> hcalls, emitted |-> emitted,
   commits |-> commits, trace |-> trace]

SetWorld(w) ==
  /\ exec' = w.ex
  /\ journal' = w.journal
  /\ hcalls' = w.hcalls
  /\ emitted' = w.emitted
  /\ commits' = w.commits
  /\ trace' = w.trace

NoSession == [segments |-> <<>>, journal |-> <<>>, exit_code |-> NoExit]

Init ==
  /\ env \in Envs
  /\ exec = Executor_new(env.image, env.image.pc)
  /\ journal = <<>>
  /\ hcalls = 0
  /\ emitted = <<>>
  /\ commits = <<>>
  /\ trace = <<>>
  /\ mode = "idle"
  /\ runs = 0
  /\ result = "none"
  /\ session = NoSession
  /\ returned = <<>>
  /\ ref = [w |-> World_new(env.image, env.image.pc), mode |-> "idle",
            sessions |-> <<>>]

\* ------------------------------------------------------- the reference run
\* The reference run is driven to its end (or to the step cap) before the
\* executor under test starts; it resumes by itself after a pause.
RefQuiet == ref.mode \in {"done", "panicked"} \/ Len(ref.w.commits) >= MaxSteps

RefBegin ==
  /\ ref.mode = "idle"
  /\ ref' = [ref EXCEPT !.w = run_begin(ref.w), !.mode = "running"]
  /\ UNCHANGED <<env, exec, journal, hcalls, emitted, commits, trace, mode, runs,
                 result, session, returned>>

\* The reference run after a step that returned exit code r.exit; w1 is the
\* world after the segment was closed.
ref_closed(rf, w1, exit_code) ==
  IF exit_code.k = "SystemSplit" THEN [rf EXCEPT !.w = w1]
  ELSE [w |-> run_return(w1, exit_code),
        mode |-> IF exit_code.k = "Paused" THEN "idle" ELSE "done",
        sessions |-> Append(rf.sessions, Session_new(w1, exit_code))]

ref_stepped(rf, r) ==
  IF r.exit = NoExit THEN [rf EXCEPT !.w = r.w]
  ELSE IF r.exit = Unwound THEN [rf EXCEPT !.w = r.w, !.mode = "panicked"]
  ELSE ref_closed(rf, close_segment(r.w, r.exit), r.exit)

RefStep ==
  /\ ref.mode = "running"
  /\ Len(ref.w.commits) < MaxSteps
  /\ ref' = ref_stepped(ref, step(ref.w, RefEnv(env)))
  /\ UNCHANGED <<env, exec, journal, hcalls, emitted, commits, trace, mode, runs,
                 result, session, returned>>

\* ------------------------------------------------------- run_with_callback
\* run() on an executor that has halted: the call fails at once.
RunRefused ==
  /\ RefQuiet
  /\ mode = "idle"
  /\ runs < MaxRuns
  /\ run_refused(exec)
  /\ runs' = runs + 1
  /\ result' = "err_halted"
  /\ UNCHANGED <<env, exec, journal, hcalls, emitted, commits, trace, mode,
                 session, returned, ref>>

\* run() up to the first iteration of the run loop.
RunBegin ==
  /\ RefQuiet
  /\ mode = "idle"
  /\ runs < MaxRuns
  /\ ~run_refused(exec)
  /\ SetWorld(run_begin(World))
  /\ runs' = runs + 1
  /\ mode' = "running"
  /\ result' = "none"
  /\ UNCHANGED <<env, session, returned, ref>>

CanStep ==
  /\ mode = "running"
  /\ Len(commits) < MaxSteps
  /\ Len(emitted) < MaxSegs

\* One iteration of the run loop in which step returns None.
Continues(r) ==
  /\ r.exit = NoExit
  /\ SetWorld(r.w)

StepContinue ==
  /\ CanStep
  /\ Continues(step(World, env))
  /\ UNCHANGED <<env, mode, runs, result, session, returned, ref>>

\* The step panics, or it returns an exit code and the assertion of line 223
\* fails.
Panics(r) ==
  /\ r.exit # NoExit
  /\ r.exit = Unwound \/ ~segment_fits(r.w.ex, env)
  /\ SetWorld(r.w)

StepPanic ==
  /\ CanStep
  /\ Panics(step(World, env))
  /\ mode' = "panicked"
  /\ result' = "panic"
  /\ UNCHANGED <<env, runs, session, returned, ref>>

\* step returns SystemSplit: the segment is closed and the loop goes on.
Splits(r) ==
  /\ r.exit = SystemSplit
  /\ segment_fits(r.w.ex, env)
  /\ SetWorld(close_segment(r.w, r.exit))

StepSplit ==
  /\ CanStep
  /\ Splits(step(World, env))
  /\ UNCHANGED <<env, mode, runs, result, session, returned, ref>>

\* step returns SessionLimit: the segment is handed over, then run() fails.
HitsSessionLimit(r) ==
  /\ r.exit = SessionLimit
  /\ segment_fits(r.w.ex, env)
  /\ SetWorld(close_segment(r.w, r.exit))

StepSessionLimit ==
  /\ CanStep
  /\ HitsSessionLimit(step(World, env))
  /\ mode' = "idle"
  /\ result' = "err_session_limit"
  /\ UNCHANGED <<env, runs, session, returned, ref>>

\* step returns Paused, Halted or Fault: run() returns a Session.
ReturnsWith(w1, exit_code) ==
  /\ SetWorld(run_return(w1, exit_code))
  /\ session' = Session_new(w1, exit_code)
  /\ returned' = Append(returned, Session_new(w1, exit_code))

Returns(r) ==
  /\ r.exit.k \in {"Paused", "Halted", "Fault"}
  /\ segment_fits(r.w.ex, env)
  /\ ReturnsWith(close_segment(r.w, r.exit), r.exit)

StepReturn ==
  /\ CanStep
  /\ Returns(step(World, env))
  /\ mode' = "idle"
  /\ result' = "ok"
  /\ UNCHANGED <<env, runs, ref>>

Next ==
  \/ RefBegin
  \/ RefStep
  \/ RunRefused
  \/ RunBegin
  \/ StepContinue
  \/ StepPanic
  \/ StepSplit
  \/ StepSessionLimit
  \/ StepReturn

Spec == Init /\ [][Next]_vars

\* ------------------------------------------------------------- properties
RECURSIVE SumOver(_, _)
\* The sum of the field f of the records of the sequence q.
SumOver(q, f) == IF q = <<>> THEN 0 ELSE Head(q)[f] + SumOver(Tail(q), f)

IsSoftware(c) == c.insn.op = "ecall" /\ c.t0 = ECALL_SOFTWARE
IsHalt(c) == c.insn.op = "ecall" /\ c.t0 = ECALL_HALT

\* C1: after every step that commits, total_cycles() is at most
\* 2^segment_limit_po2.
C1_TotalCyclesWithinLimit ==
  \A i \in 1 .. Len(commits) : commits[i].total <= Pow2(env.segment_limit_po2)

\* A committed step that fills the segment to its limit, in a run that has
\* also split.
C1_Witness ==
  /\ \E i \in 1 .. Len(commits) : commits[i].total = Pow2(env.segment_limit_po2)
  /\ \E k \in 1 .. Len(emitted) : emitted[k].exit_code = SystemSplit

\* The pcs of the instructions a world has retired, in order.
RetiredPcs(w) == [i \in 1 .. Len(w.commits) |-> w.commits[i].pc]

\* The executor under test has returned a Session with a terminal exit code.
Terminated == result = "ok" /\ exec.exit_code.k \in {"Halted", "Fault"}

\* C2: a run cut into segments retires the same instructions and ends in the
\* same terminal state (exit code, pc, committed memory and registers) as the
\* run of the same guest that never splits.
C2_SplitTransparent ==
  /\ \A i \in 1 .. Len(commits) :
       i <= Len(ref.w.commits) /\ commits[i].pc = ref.w.commits[i].pc
  /\ Terminated =>
       /\ ref.mode = "done"
       /\ exec.exit_code = ref.w.ex.exit_code
       /\ RetiredPcs(World) = RetiredPcs(ref.w)
       /\ build_image(exec.monitor, exec.pc)
            = build_image(ref.w.ex.monitor, ref.w.ex.pc)

\* The committed software ecalls among the first n retired instructions.
RECURSIVE SoftwareCommits(_, _)
SoftwareCommits(q, n) ==
  IF n = 0 THEN <<>>
  ELSE IF IsSoftware(q[n]) THEN Append(SoftwareCommits(q, n - 1), q[n])
  ELSE SoftwareCommits(q, n - 1)

\* The records promoted by the instructions that committed in segment k (the
\* k-th segment handed to the callback), in order.
RECURSIVE PromotedIn(_, _, _)
PromotedIn(q, n, k) ==
  IF n = 0 THEN <<>>
  ELSE IF q[n].seg = k - 1 /\ q[n].syscall.some
       THEN Append(PromotedIn(q, n - 1, k), q[n].syscall)
       ELSE PromotedIn(q, n - 1, k)

\* C3: the pending-syscall protocol.  A record made in a step that a split
\* undoes stays in pending_syscall and is in no closed segment; the handler is
\* invoked once per software ecall, replays included; the record is appended to
\* syscalls once, in the segment in which the ecall commits; after a committed
\* step pending_syscall is empty.
C3_PendingSyscallProtocol ==
  /\ \A i \in 1 .. Len(commits) :
       /\ ~commits[i].pending_after
       /\ commits[i].syscall.some = IsSoftware(commits[i])
       /\ commits[i].replayed => IsSoftware(commits[i])
       /\ commits[i].calls_after =
            commits[i].calls
              + (IF IsSoftware(commits[i]) /\ ~commits[i].replayed THEN 1 ELSE 0)
  /\ hcalls = Len(SoftwareCommits(commits, Len(commits)))
                + (IF exec.pending_syscall.some THEN 1 ELSE 0)
  /\ \A j \in 1 .. Len(SoftwareCommits(commits, Len(commits))) :
       LET c == SoftwareCommits(commits, Len(commits))[j]
       IN \A n \in 1 .. Len(c.syscall.to_guest) : c.syscall.to_guest[n] = j
  /\ \A k \in 1 .. Len(emitted) :
       emitted[k].syscalls = PromotedIn(commits, Len(commits), k)
  /\ exec.syscalls = PromotedIn(commits, Len(commits), Len(emitted) + 1)

\* A software ecall was undone by a split that closed a segment with retired
\* instructions, and committed by replay in the next segment.
C3_Witness ==
  \E i \in 1 .. Len(commits) :
    /\ commits[i].replayed
    /\ commits[i].seg >= 1
    /\ emitted[commits[i].seg].exit_code = SystemSplit
    /\ emitted[commits[i].seg].split_insn.v >= 1
    /\ Len(emitted) > commits[i].seg
    /\ emitted[commits[i].seg + 1].syscalls # <<>>

\* The world in which the ecall at pc runs for the first time and the handler
\* returns what it returned when the pending record was made.
FirstTime(w) ==
  [w EXCEPT !.ex.pending_syscall = NoSyscall, !.hcalls = @ - 1]

\* What an ecall leaves behind: memory and registers as the step sees them, the
\* page cycles charged, the OpCodeResult (next pc, extra cycles).
EcallEffects(r) ==
  [ok |-> r.ok, cur |-> r.w.ex.monitor.cur,
   page_read_cycles |-> r.w.ex.monitor.page_read_cycles,
   page_write_cycles |-> r.w.ex.monitor.page_write_cycles,
   op |-> r.op]

Fetched(w) == with_monitor(w, load_insn(w.ex.monitor))

\* C4: a software ecall retried with the pending record replayed has the same
\* memory effects and the same cycle cost as its first-time execution from the
\* same state with the handler returning the same outputs.
C4_ReplayEquivalent ==
  exec.pending_syscall.some =>
    EcallEffects(ecall(Fetched(World), env))
      = EcallEffects(ecall(Fetched(FirstTime(World)), env))

\* The same, when the pending record was made by a handler that leaves the
\* monitor alone.
C4_PureHandlerReplay == env.handler = "pure" => C4_ReplayEquivalent

\* C5: session_cycle() never decreases from one committed step to the next,
\* over the whole life of the executor (splits, pause and resume included).
C5_SessionCycleMonotone ==
  \A i \in 1 .. Len(commits) - 1 : commits[i].cycle <= commits[i + 1].cycle

\* The same, between committed steps of one run: steps that commit with the
\* same number of segments given away before them.
C5_MonotoneWithinRun ==
  \A i \in 1 .. Len(commits) - 1 :
    (\A k \in commits[i].seg + 1 .. commits[i + 1].seg :
        emitted[k].exit_code = SystemSplit)
      => commits[i].cycle <= commits[i + 1].cycle

\* C6: the segments handed to the callback, over successive runs of one
\* executor that end in Paused and are resumed, carry the indices 0, 1, 2, ...
\* in order.
C6_SegmentIndicesCount ==
  \A k \in 1 .. Len(emitted) :
    (\A j \in 1 .. k - 1 : splits_after(emitted[j].exit_code))
      => emitted[k].index = k - 1

\* The same within one run: the index counts the segments since the run began.
C6_IndicesCountWithinRun ==
  \A k \in 1 .. Len(emitted) :
    (\A j \in 1 .. k - 1 : emitted[j].exit_code = SystemSplit)
      => emitted[k].index = k - 1

\* C7: the pre_image of the segment that follows one closed with SystemSplit or
\* Paused is the image whose id the closed segment carries as post_image_id;
\* the first segment starts from the image the executor was created with.
C7_SegmentsChain ==
  /\ Len(emitted) >= 1 => emitted[1].pre_image = env.image
  /\ \A k \in 1 .. Len(emitted) - 1 :
       splits_after(emitted[k].exit_code) =>
         compute_id(emitted[k + 1].pre_image) = emitted[k].post_image_id
  /\ (Len(emitted) >= 1 /\ splits_after(emitted[Len(emitted)].exit_code)) =>
       compute_id(exec.pre_image) = emitted[Len(emitted)].post_image_id

\* A run that split and a run that paused, each followed by a further segment
\* that starts from another image than the segment before it.
C7_Witness ==
  /\ \E k \in 1 .. Len(emitted) - 1 :
       /\ emitted[k].exit_code.k = "Paused"
       /\ emitted[k + 1].pre_image # emitted[k].pre_image
  /\ \E k \in 1 .. Len(emitted) - 1 :
       /\ emitted[k].exit_code = SystemSplit
       /\ emitted[k + 1].pre_image # emitted[k].pre_image

\* C8: the body_cycles of the segments handed to the callback add up to the
\* opcode and extra cycles of the retired instructions, once a run has
\* returned its Session.
C8_BodyCyclesAddUp ==
  result = "ok" => SumOver(emitted, "body_cycles") = SumOver(commits, "cost")

\* The same, up to the first segment closed with Fault or SessionLimit.
C8_AddUpBeforeFault ==
  (result = "ok"
     /\ \A k \in 1 .. Len(emitted) - 1 :
          emitted[k].exit_code.k \notin {"Fault", "SessionLimit"})
    => SumOver(emitted, "body_cycles") = SumOver(commits, "cost")

\* The committed HALT ecall c closed segment number c.seg + 1 with exit code x.
HaltClosed(c, x) ==
  /\ c.exit = x
  /\ c.extra = 0
  /\ c.cost = 1
  /\ c.seg + 1 <= Len(emitted)
  /\ emitted[c.seg + 1].exit_code = x

\* C9: a committed HALT ecall with A0 = user_exit * 256 + halt_type.  TERMINATE
\* exits with Halted(user_exit), leaves pc at the ecall and closes the segment
\* without a split (the executor keeps the closed segment's pre_image, body
\* cycles and instruction count).  PAUSE exits with Paused(user_exit), moves pc
\* one word on and closes the segment with a split (counters reset, pre_image
\* rebuilt at the new pc), so that the next retired instruction is the one
\* after the pause.  Neither adds extra cycles.
C9_HaltEcallOutcome ==
  \A i \in 1 .. Len(commits) :
    IsHalt(commits[i]) =>
      /\ commits[i].a0 % 256 \in {HALT_TERMINATE, HALT_PAUSE}
      /\ commits[i].a0 % 256 = HALT_TERMINATE =>
           /\ HaltClosed(commits[i], Halted((commits[i].a0 \div 256) % 256))
           /\ commits[i].next_pc = commits[i].pc
           /\ i = Len(commits)
           /\ commits[i].seg + 1 = Len(emitted)
           /\ exec.pc = commits[i].pc
           /\ exec.exit_code = Halted((commits[i].a0 \div 256) % 256)
           /\ exec.pre_image = emitted[Len(emitted)].pre_image
           /\ exec.body_cycles = emitted[Len(emitted)].body_cycles
           /\ exec.insn_counter >= 1
      /\ commits[i].a0 % 256 = HALT_PAUSE =>
           /\ HaltClosed(commits[i], Paused((commits[i].a0 \div 256) % 256))
           /\ commits[i].next_pc = commits[i].pc + WORD_SIZE
           /\ i < Len(commits) => commits[i + 1].pc = commits[i].pc + WORD_SIZE
           /\ commits[i].seg + 1 < Len(emitted) =>
                emitted[commits[i].seg + 2].pre_image.pc = commits[i].pc + WORD_SIZE
           /\ i = Len(commits) =>
                /\ exec.pc = commits[i].pc + WORD_SIZE
                /\ exec.pre_image = build_image(exec.monitor, exec.pc)
                /\ exec.body_cycles = 0
                /\ exec.insn_counter = 0
                /\ exec.split_insn = NoneU32

\* A guest paused with exit code 3, was resumed at the next instruction and
\* then terminated with another exit code.
C9_Witness ==
  /\ Len(commits) >= 3
  /\ \E i \in 1 .. Len(commits) - 1 :
       /\ IsHalt(commits[i])
       /\ commits[i].exit = Paused(3)
       /\ commits[i + 1].pc = commits[i].pc + WORD_SIZE
  /\ IsHalt(commits[Len(commits)])
  /\ commits[Len(commits)].exit = Halted(5)
  /\ exec.exit_code = Halted(5)

\* C10: once the executor's exit code is Halted, no step changes the executor
\* (its monitor included), retires an instruction, hands a segment to the
\* callback, calls a handler or writes the journal, and a call of run only
\* returns the error.
C10_HaltedRunRefused ==
  [][exec.exit_code.k = "Halted" =>
       /\ exec' = exec
       /\ commits' = commits
       /\ emitted' = emitted
       /\ trace' = trace
       /\ hcalls' = hcalls
       /\ journal' = journal
       /\ session' = session
       /\ mode' = mode
       /\ runs' # runs => result' = "err_halted"]_vars

\* run was called on a halted executor and returned the error.
C10_Witness ==
  /\ exec.exit_code.k = "Halted"
  /\ session.exit_code.k = "Halted"
  /\ result = "err_halted"
  /\ runs >= 2

\* A run is in progress and the session limit is reached at the start of step.
AtSessionLimit ==
  /\ mode = "running"
  /\ env.session_limit.some
  /\ session_cycle(exec, env) >= env.session_limit.v

\* C11: when a session limit is configured and session_cycle() has reached it
\* at the start of step, step returns SessionLimit and changes nothing, and
\* the run ends with the error "Session limit exceeded" and no Session: pc,
\* the counters, split_insn, pending_syscall, memory, the speculative set and
\* the page cycle counters are as before the step.
C11_SessionLimitFrame ==
  [][AtSessionLimit =>
       /\ step(World, env) = [w |-> World, exit |-> SessionLimit]
       /\ result' = "err_session_limit"
       /\ mode' = "idle"
       /\ returned' = returned
       /\ session' = session
       /\ commits' = commits
       /\ trace' = trace
       /\ exec'.pc = exec.pc
       /\ exec'.insn_counter = exec.insn_counter
       /\ exec'.body_cycles = exec.body_cycles
       /\ exec'.segment_cycle = exec.segment_cycle
       /\ exec'.split_insn = exec.split_insn
       /\ exec'.pending_syscall = exec.pending_syscall
       /\ exec'.exit_code = exec.exit_code
       /\ exec'.monitor.image = exec.monitor.image
       /\ exec'.monitor.cur = exec.monitor.cur
       /\ exec'.monitor.pending_reads = exec.monitor.pending_reads
       /\ exec'.monitor.pending_writes = exec.monitor.pending_writes
       /\ exec'.monitor.page_read_cycles = exec.monitor.page_read_cycles
       /\ exec'.monitor.page_write_cycles = exec.monitor.page_write_cycles]_vars

\* A run that retired instructions and split ended with the session limit
\* error.
C11_Witness ==
  /\ result = "err_session_limit"
  /\ Len(commits) >= 1
  /\ \E k \in 1 .. Len(emitted) : emitted[k].exit_code = SystemSplit
  /\ emitted[Len(emitted)].exit_code = SessionLimit

\* The instruction at the executor's pc is an illegal ecall: an unknown T0, a
\* SOFTWARE ecall naming a syscall nobody registered, a BIGINT ecall with
\* op # 0, or a HALT ecall with a halt type other than 0 and 1.
IllegalEcall(ex) ==
  /\ insn_at(env, ex.pc).op = "ecall"
  /\ \/ ex.monitor.cur.regs[REG_T0] \notin
          {ECALL_HALT, ECALL_INPUT, ECALL_SOFTWARE, ECALL_SHA, ECALL_BIGINT}
     \/ /\ ex.monitor.cur.regs[REG_T0] = ECALL_SOFTWARE
        /\ ~ex.pending_syscall.some
        /\ ex.monitor.cur.data[ex.monitor.cur.regs[REG_A2]] # SysName
     \/ /\ ex.monitor.cur.regs[REG_T0] = ECALL_BIGINT
        /\ ex.monitor.cur.regs[REG_A1] # 0
     \/ /\ ex.monitor.cur.regs[REG_T0] = ECALL_HALT
        /\ ex.monitor.cur.regs[REG_A0] % 256 \notin {HALT_TERMINATE, HALT_PAUSE}

FaultingInsn(ex) == insn_at(env, ex.pc).op \in {"bad", "trap"}

\* What C13 says of a step taken at a faulting instruction and of the run
\* around it.
FaultOutcome ==
  /\ step(World, env).exit = Fault(exec.pc)
  /\ step(World, env).w.ex.pc = exec.pc
  /\ step(World, env).w.ex.insn_counter = exec.insn_counter
  /\ step(World, env).w.ex.body_cycles = exec.body_cycles
  /\ step(World, env).w.ex.syscalls = exec.syscalls
  /\ commits' = commits
  /\ result' = "ok"
  /\ session'.exit_code = Fault(exec.pc)
  /\ returned' = Append(returned, session')
  /\ session'.segments # <<>>
  /\ session'.segments[Len(session'.segments)] = emitted'[Len(emitted')]
  /\ emitted'[Len(emitted')].exit_code = Fault(exec.pc)
  /\ emitted'[Len(emitted')].syscalls = exec.syscalls
  /\ emitted'[Len(emitted')].body_cycles = exec.body_cycles
  /\ emitted'[Len(emitted')].post_image_id =
       compute_id([regs |-> exec.monitor.image.regs,
                   data |-> exec.monitor.image.data, pc |-> exec.pc])

\* C13: a step on an instruction at pc p that fails to decode or to execute
\* returns Fault(p) and leaves pc, insn_counter, body_cycles and syscalls as
\* they were; the run returns a Session with exit code Fault(p) whose last
\* segment has exit code Fault(p) and the post image of the memory committed
\* before the step.
C13_FaultsInSession ==
  [][(mode = "running" /\ ~AtSessionLimit /\ FaultingInsn(exec)) => FaultOutcome]_vars

\* The same for an executor that has not returned a Fault before.
C13_FirstFaultInSession ==
  [][(mode = "running" /\ ~AtSessionLimit /\ FaultingInsn(exec)
        /\ exec.exit_code.k # "Fault") => FaultOutcome]_vars

\* C14: once a run has ended with exit code Fault, no instruction is retired
\* and no segment is handed to the callback, whatever calls of run follow.
C14_FaultTerminal ==
  [][exec.exit_code.k = "Fault" =>
       (commits' = commits /\ emitted' = emitted)]_vars

\* The part of C14 about retired instructions.
C14_NoRetireAfterFault ==
  [][exec.exit_code.k = "Fault" => commits' = commits]_vars

\* The journals of a sequence of Sessions, one after the other.
RECURSIVE JournalsOf(_)
JournalsOf(ss) ==
  IF ss = <<>> THEN <<>> ELSE Head(ss).journal \o JournalsOf(Tail(ss))

\* The bytes the handler has written to the journal, in the order of its
\* invocations.
JournalWrites ==
  IF env.handler = "journal" THEN [i \in 1 .. hcalls |-> i] ELSE <<>>

\* C15: the journals of the Sessions returned by a run that pauses and the
\* runs that resume it, taken together, are the bytes the guest's syscalls
\* wrote, each once and in order; and they are the journal of the same guest
\* run without splits.
C15_JournalContinuity ==
  result \in {"ok", "err_halted"} =>
    /\ JournalsOf(returned) = JournalWrites
    /\ (Terminated /\ ref.mode = "done") =>
         JournalsOf(returned) = JournalsOf(ref.sessions)

\* A guest wrote a journal byte in a syscall that was undone by a split and
\* replayed, paused, was resumed, wrote another byte and halted.
C15_Witness ==
  /\ result = "ok"
  /\ exec.exit_code.k = "Halted"
  /\ Len(returned) = 2
  /\ returned[1].exit_code.k = "Paused"
  /\ returned[1].journal # <<>>
  /\ returned[2].journal # <<>>
  /\ \E i \in 1 .. Len(commits) : commits[i].replayed

\* What a step that returned SystemSplit (r) left of the state it started in.
SplitFrame(r) ==
  /\ r.w.ex.pc = exec.pc
  /\ r.w.ex.insn_counter = exec.insn_counter
  /\ r.w.ex.body_cycles = exec.body_cycles
  /\ r.w.ex.segment_cycle = exec.segment_cycle
  /\ r.w.ex.syscalls = exec.syscalls
  /\ r.w.ex.exit_code = exec.exit_code
  /\ r.w.ex.monitor.image = exec.monitor.image
  /\ r.w.ex.monitor.cur = exec.monitor.image
  /\ r.w.ex.monitor.faults = exec.monitor.faults
  /\ r.w.ex.monitor.page_read_cycles = exec.monitor.page_read_cycles
  /\ r.w.ex.monitor.page_write_cycles = exec.monitor.page_write_cycles
  /\ r.w.ex.monitor.pending_reads = {}
  /\ r.w.ex.monitor.pending_writes = {}
  /\ r.w.ex.split_insn = SomeU32(exec.insn_counter)
  /\ r.w.commits = commits
  /\ r.w.emitted = emitted
  /\ r.w.trace = trace

\* What step returns for r: a split leaves the frame, a retired instruction
\* leaves the segment within the limit.
SplitOrFits(r) ==
  /\ r.exit = SystemSplit => SplitFrame(r)
  /\ r.exit \in {NoExit} \cup {Halted(c) : c \in 0 .. 255} \cup {Paused(c) : c \in 0 .. 255}
       => total_cycles(r.w.ex) <= get_segment_limit(env)

\* C16: a step whose pending total exceeds the segment limit returns
\* SystemSplit and commits nothing: pc, insn_counter, body_cycles,
\* segment_cycle, syscalls, committed memory and registers and the page
\* cycle counters are as before the step, the speculative set is empty, and
\* split_insn is the insn_counter; a step that retires its instruction stays
\* within the limit.
C16_SplitStepFrame ==
  (mode = "running" /\ ~AtSessionLimit) => SplitOrFits(step(World, env))

\* A software ecall has just been undone by a split after instructions had
\* retired in the segment: the record of the syscall is pending.
C16_Witness ==
  /\ mode = "running"
  /\ Len(emitted) >= 1
  /\ emitted[Len(emitted)].exit_code = SystemSplit
  /\ emitted[Len(emitted)].split_insn.v >= 1
  /\ exec.pending_syscall.some
  /\ exec.insn_counter = 0

\* The assertion of line 223 holds for what step returned (r): a step that
\* closes a segment leaves total_cycles() within the segment limit.
AssertionHolds(r) ==
  (r.exit # NoExit /\ r.exit # Unwound) => segment_fits(r.w.ex, env)

\* C17: on an executor that has not faulted before, every step that closes a
\* segment passes the assertion total_cycles <= 2^segment_limit_po2, and
\* every segment handed to the callback has po2 at most segment_limit_po2.
C17_SegmentsWithinLimit ==
  /\ (mode = "running" /\ exec.exit_code.k # "Fault") =>
       AssertionHolds(step(World, env))
  /\ \A i \in 1 .. Len(emitted) : emitted[i].po2 <= env.segment_limit_po2

\* Every segment that is handed to the callback has po2 at most
\* segment_limit_po2 (the runs in which the assertion fails hand none).
C17_HandedSegmentsWithinLimit ==
  \A i \in 1 .. Len(emitted) : emitted[i].po2 <= env.segment_limit_po2

\* The number of instructions retired in the i-th segment handed to the
\* callback.
RetiredIn(i) == Cardinality({k \in 1 .. Len(commits) : commits[k].seg = i - 1})

\* C18: a segment handed to the callback carries split_insn = Some(n) exactly
\* when its exit code is SystemSplit, and n is then the number of
\* instructions retired in that segment.
C18_SplitInsn ==
  \A i \in 1 .. Len(emitted) :
    /\ emitted[i].split_insn.some <=> emitted[i].exit_code = SystemSplit
    /\ emitted[i].exit_code = SystemSplit =>
         emitted[i].split_insn.v = RetiredIn(i)

\* A segment closed by a split after two or more instructions, one closed by
\* a split before any instruction retired, and a later segment closed by a
\* halt.
C18_Witness ==
  /\ \E i \in 1 .. Len(emitted) :
       emitted[i].exit_code = SystemSplit /\ emitted[i].split_insn.v >= 2
  /\ \E i \in 1 .. Len(emitted) :
       emitted[i].exit_code = SystemSplit /\ emitted[i].split_insn.v = 0
  /\ emitted[Len(emitted)].exit_code.k = "Halted"

\* The positions of the InstructionStart events in the observed stream.
IsStart(k) == trace[k].ev = "InstructionStart"
Starts == SelectSeq([k \in 1 .. Len(trace) |-> k], IsStart)

\* The events observed after the i-th InstructionStart and before the next.
EventsOf(i) ==
  SubSeq(trace, Starts[i] + 1,
         IF i < Len(Starts) THEN Starts[i + 1] - 1 ELSE Len(trace))

MemorySet(a, v) == [ev |-> "MemorySet", at |-> a, value |-> v]
RegisterSet(r, v) == [ev |-> "RegisterSet", at |-> r, value |-> v]

\* The stores of the retired instruction c, in the order it makes them.
StoresOf(c) ==
  CASE c.insn.op = "sw" -> <<MemorySet(c.insn.addr, c.insn.imm)>>
    [] c.insn.op \in {"li", "mul"} -> <<RegisterSet(c.insn.rd, c.insn.imm)>>
    [] c.insn.op = "j" -> <<>>
    [] c.insn.op = "ecall" /\ c.t0 \in {ECALL_HALT, ECALL_INPUT} -> <<>>
    [] c.insn.op = "ecall" /\ c.t0 = ECALL_SOFTWARE ->
         (IF env.handler = "writer" /\ ~c.replayed
          THEN <<MemorySet(HAddr, HVal)>> ELSE <<>>)
           \o [k \in 1 .. Len(c.syscall.to_guest) |->
                 MemorySet(c.a0 + k - 1, c.syscall.to_guest[k])]
           \o <<RegisterSet(REG_A0, c.syscall.regs[1]),
                RegisterSet(REG_A1, c.syscall.regs[2])>>

\* The events of a sha or bigint ecall: one store at the address in A0.
OneStoreAtA0(c, evs) ==
  Len(evs) = 1 /\ evs[1].ev = "MemorySet" /\ evs[1].at = c.a0

\* C19: the observed event stream is, for each retired instruction in
\* retirement order, one InstructionStart at its pc followed by the stores
\* that instruction made, in the order it made them; nothing precedes the
\* first InstructionStart, and steps that retire nothing add no event.
C19_TraceStream ==
  /\ Len(Starts) = Len(commits)
  /\ trace # <<>> => IsStart(1)
  /\ \A i \in 1 .. Len(Starts) :
       /\ trace[Starts[i]].at = commits[i].pc
       /\ IF commits[i].insn.op = "ecall" /\ commits[i].t0 \in {ECALL_SHA, ECALL_BIGINT}
          THEN OneStoreAtA0(commits[i], EventsOf(i))
          ELSE EventsOf(i) = StoresOf(commits[i])

\* A step that retires nothing (a split, a fault, the session limit, the
\* start and the end of a run) observes no event.
C19_NoEventWithoutCommit == [][commits' = commits => trace' = trace]_vars

\* A software ecall whose handler stored to memory was undone by a split and
\* replayed, and instructions retired after it.
C19_Witness ==
  /\ env.handler = "writer"
  /\ \E i \in 1 .. Len(commits) - 1 :
       /\ commits[i].replayed
       /\ Len(EventsOf(i)) >= 3
  /\ Len(Starts) = Len(commits)

\* The operands of a BIGINT ecall about to be stepped.
BigintX == exec.monitor.cur.data[exec.monitor.cur.regs[REG_A2]] % Pow2(BigintBits)
BigintY == exec.monitor.cur.data[exec.monitor.cur.regs[REG_A3]] % Pow2(BigintBits)
BigintN == exec.monitor.cur.data[exec.monitor.cur.regs[REG_A4]] % Pow2(BigintBits)

\* The next step is a BIGINT ecall with op = 0 and n = 0.
BigintMulNext ==
  /\ mode = "running"
  /\ ~AtSessionLimit
  /\ insn_at(env, exec.pc).op = "ecall"
  /\ exec.monitor.cur.regs[REG_T0] = ECALL_BIGINT
  /\ exec.monitor.cur.regs[REG_A1] = 0
  /\ BigintN = 0

\* The product fits: the step is undone by a split or retires with the
\* product stored at z and BIGINT_CYCLES (nine) extra cycles.
BigintStored(r) ==
  /\ r.exit \in {NoExit, SystemSplit}
  /\ r.exit = NoExit =>
       /\ r.w.ex.monitor.image.data[exec.monitor.cur.regs[REG_A0]] = BigintX * BigintY
       /\ r.w.commits[Len(r.w.commits)].extra = BIGINT_CYCLES
       /\ BIGINT_CYCLES = 9
       /\ r.w.ex.pc = exec.pc + WORD_SIZE

\* The product does not fit: the step is a fault at the ecall's pc and
\* memory is as before.
BigintFaults(r) ==
  /\ r.exit = Fault(exec.pc)
  /\ r.w.ex.monitor.cur.data = exec.monitor.cur.data
  /\ r.w.ex.monitor.image = exec.monitor.image
  /\ r.w.commits = commits

BigintOutcome(r) ==
  IF BigintX * BigintY < Pow2(BigintBits) THEN BigintStored(r) ELSE BigintFaults(r)

\* C20: a BIGINT ecall with op = 0 and n = 0 stores x * y at z for nine extra
\* cycles when the product fits the integer width, and is a fault that stores
\* nothing when it does not.
C20_BigintMulNoModulus == BigintMulNext => BigintOutcome(step(World, env))

\* The part of C20 about products that fit.
C20_BigintProductThatFits ==
  (BigintMulNext /\ BigintX * BigintY < Pow2(BigintBits)) =>
    BigintStored(step(World, env))

\* The i-th segment handed to the callback was closed by a split before any
\* instruction retired in it.
EmptySplit(i) ==
  /\ emitted[i].exit_code = SystemSplit
  /\ emitted[i].split_insn = SomeU32(0)

\* C21: for a guest that halts when it is never split, run with no session
\* limit does not close three segments in a row by a split at the same pc
\* with no instruction retired: the second and the third start from the same
\* executor state, so every later segment would be empty as well and run
\* would never return.
C21_SplitsMakeProgress ==
  (ref.mode = "done" /\ ~env.session_limit.some) =>
    \A i \in 1 .. Len(emitted) - 2 :
      ~(/\ EmptySplit(i) /\ EmptySplit(i + 1) /\ EmptySplit(i + 2)
        /\ emitted[i + 1].pre_image = emitted[i].pre_image
        /\ emitted[i + 2].pre_image = emitted[i].pre_image)

\* Once two segments in a row were closed empty by a split, the step that
\* closes the next segment is a split again, retires nothing and leaves the
\* executor as it was but for the list of segments: the loop of run repeats
\* it without end.
C21_EmptySplitRepeats ==
  [][(/\ mode = "running"
      /\ ~env.session_limit.some
      /\ Len(emitted) >= 2
      /\ EmptySplit(Len(emitted))
      /\ EmptySplit(Len(emitted) - 1)
      /\ Len(emitted') = Len(emitted) + 1)
     => /\ emitted'[Len(emitted')].exit_code = SystemSplit
        /\ emitted'[Len(emitted')].split_insn = SomeU32(0)
        /\ [exec' EXCEPT !.segments = exec.segments] = exec
        /\ mode' = "running"
        /\ commits' = commits]_vars

\* C22: no segment with exit code SessionLimit is handed to the segment
\* callback, and none is added to the executor's list of segments: every
\* segment the callback receives has exit code SystemSplit, Paused, Halted or
\* Fault.  Stated for the first run of an executor whose splits all retired
\* instructions.
C22_NoSessionLimitSegment ==
  (runs = 1 /\ \A i \in 1 .. Len(emitted) : ~EmptySplit(i)) =>
    /\ \A i \in 1 .. Len(emitted) : emitted[i].exit_code # SessionLimit
    /\ \A i \in 1 .. Len(exec.segments) : exec.segments[i].exit_code # SessionLimit

\* No Session that run returns holds a segment with exit code SessionLimit,
\* and a run that met the session limit returns no Session.
C22_NoSessionLimitInSession ==
  /\ \A k \in 1 .. Len(returned) :
       \A i \in 1 .. Len(returned[k].segments) :
         returned[k].segments[i].exit_code # SessionLimit
  /\ result = "err_session_limit" => mode = "idle"

====
